---- MODULE Spec2Model ----
(***************************************************************************)
(* Model of src/src/main.cpp: the orbit camera (struct Camera and the GLFW *)
(* callbacks that mutate it), the keyboard polling of processInput, the    *)
(* setup sequence of main() and its render loop.                           *)
(*                                                                         *)
(* Numbers.  The program computes in IEEE float; the model computes in     *)
(* fixed point:                                                            *)
(*   angles  in units of 1/AngleScale  radian   (1e-4 rad),                *)
(*   lengths in units of 1/RadiusScale          (1e-2),                    *)
(*   sin/cos results in units of 1/AngleScale.                             *)
(* At this scale pi, 2*pi and pi/2 round to 31416, 62832 and 15708, which  *)
(* keeps two_pi = 2*pi and half_pi = pi/2 exact, as they are in float.     *)
(* Pointer coordinates are whole pixels, scroll offsets whole wheel        *)
(* clicks.                                                                 *)
(***************************************************************************)
EXTENDS Integers, Sequences, FiniteSets, TLC

AngleScale == 10000
RadiusScale == 100

\* glm::pi<float>(), glm::two_pi<float>(), glm::half_pi<float>()
Pi == 31416
TwoPi == 62832
HalfPi == 15708

\* Window settings
SCR_WIDTH == 1280
SCR_HEIGHT == 720

\* GLFW constants used by the callbacks
GLFW_MOUSE_BUTTON_LEFT == 0
GLFW_MOUSE_BUTTON_RIGHT == 1
GLFW_RELEASE == 0
GLFW_PRESS == 1

(***************************************************************************)
(* Bounds of the model.                                                    *)
(***************************************************************************)
\* callbacks delivered over the whole run
MaxEvents == 4
\* iterations of the render loop
MaxFrames == 3

\* Cursor positions the window system reports (pixels).  While a button is
\* held the cursor is captured, so positions outside the 1280x720 window
\* occur as well.
CursorPositions == { <<0, 0>>, <<100, 300>>, <<2000, 719>> }
\* Scroll offsets: 5 halves the radius, 10 makes the zoom factor zero,
\* 15 makes it negative, -10 doubles the radius.
ScrollOffsets == { -10, 5, 10, 15 }
Buttons == { GLFW_MOUSE_BUTTON_LEFT, GLFW_MOUSE_BUTTON_RIGHT }
ButtonActions == { GLFW_PRESS, GLFW_RELEASE }

(***************************************************************************)
(* Fixed-point arithmetic.                                                 *)
(***************************************************************************)
\* a * b / d, rounded to nearest (the float product, at the model's scale)
MulDiv(a, b, d) ==
    LET p == a * b
    IN  IF p >= 0 THEN (p + d \div 2) \div d ELSE -((-p + d \div 2) \div d)

\* sin on [0, pi/4], Taylor series
SinSeries(x) ==
    LET x2 == MulDiv(x, x, AngleScale)
        t3 == MulDiv(x, x2, 6 * AngleScale)
        t5 == MulDiv(t3, x2, 20 * AngleScale)
        t7 == MulDiv(t5, x2, 42 * AngleScale)
    IN  x - t3 + t5 - t7

\* cos on [0, pi/4], Taylor series
CosSeries(x) ==
    LET x2 == MulDiv(x, x, AngleScale)
        t2 == x2 \div 2
        t4 == MulDiv(t2, x2, 12 * AngleScale)
        t6 == MulDiv(t4, x2, 30 * AngleScale)
        t8 == MulDiv(t6, x2, 56 * AngleScale)
    IN  AngleScale - t2 + t4 - t6 + t8

\* sin on [0, pi/2]
SinQuarter(x) == IF 2 * x > HalfPi THEN CosSeries(HalfPi - x) ELSE SinSeries(x)

\* sin on [0, pi]
SinHalf(x) == IF x > HalfPi THEN SinQuarter(Pi - x) ELSE SinQuarter(x)

\* sin(x) for any angle x
Sin(x) ==
    LET y == x % TwoPi
    IN  IF y >= Pi THEN -SinHalf(y - Pi) ELSE SinHalf(y)

\* cos(x) for any angle x
Cos(x) == Sin(x + HalfPi)

\* Clamp with the lower bound forgotten
ClampUpperOnly(x, minVal, maxVal) == IF maxVal < x THEN maxVal ELSE x

\* glm::clamp(x, minVal, maxVal) = min(max(x, minVal), maxVal)
Clamp(x, minVal, maxVal) ==
    LET m == IF x < minVal THEN minVal ELSE x
    IN  IF maxVal < m THEN maxVal ELSE m

(***************************************************************************)
(* struct Camera                                                           *)
(***************************************************************************)
\* The default member initializers of struct Camera (the global `camera`).
CameraDefault ==
    [ radius      |-> 50 * RadiusScale,
      theta       |-> MulDiv(HalfPi, 8, 10),
      phi         |-> 3000,
      fov         |-> 60,
      minRadius   |-> 10 * RadiusScale,
      maxRadius   |-> 800 * RadiusScale,
      minTheta    |-> 1000,
      maxTheta    |-> Pi - 1000,
      isDragging  |-> FALSE,
      lastMouseX  |-> 0,
      lastMouseY  |-> 0,
      sensitivity |-> 50 ]

\* Camera::getPosition
getPosition(c) ==
    << MulDiv(MulDiv(c.radius, Sin(c.theta), AngleScale), Cos(c.phi), AngleScale),
       MulDiv(c.radius, Cos(c.theta), AngleScale),
       MulDiv(MulDiv(c.radius, Sin(c.theta), AngleScale), Sin(c.phi), AngleScale) >>

\* Camera::getTarget
getTarget(c) == << 0, 0, 0 >>

\* reset that restores the startup values instead of the reset values
resetToStartup(c) ==
    [ c EXCEPT !.radius = 50 * RadiusScale, !.theta = MulDiv(HalfPi, 8, 10), !.phi = 3000 ]

\* Camera::reset
reset(c) == [ c EXCEPT !.radius = 25 * RadiusScale, !.theta = HalfPi, !.phi = 0 ]

(***************************************************************************)
(* The GLFW callbacks, as functions of the camera they mutate.             *)
(***************************************************************************)
\* mouse_button_callback; (x, y) is what glfwGetCursorPos reports
mouse_button_callback(c, button, action, x, y) ==
    IF button = GLFW_MOUSE_BUTTON_LEFT
    THEN IF action = GLFW_PRESS
         THEN [ c EXCEPT !.isDragging = TRUE, !.lastMouseX = x, !.lastMouseY = y ]
         ELSE IF action = GLFW_RELEASE
              THEN [ c EXCEPT !.isDragging = FALSE ]
              ELSE c
    ELSE c

\* The two `if`s that follow the comment "Keep phi in [-PI, PI]"
WrapPhi(phi) ==
    LET p1 == IF phi > Pi THEN phi - TwoPi ELSE phi
    IN  IF p1 < -Pi THEN p1 + TwoPi ELSE p1

\* cursor_position_callback with the sign of the azimuth update flipped
cursorPositionSameSign(c, xpos, ypos) ==
    IF c.isDragging
    THEN LET dx == xpos - c.lastMouseX
             dy == ypos - c.lastMouseY
         IN  [ c EXCEPT !.phi = WrapPhi(c.phi + dx * c.sensitivity),
                        !.theta = Clamp(c.theta + dy * c.sensitivity,
                                        c.minTheta, c.maxTheta),
                        !.lastMouseX = xpos,
                        !.lastMouseY = ypos ]
    ELSE c

\* cursor_position_callback
cursor_position_callback(c, xpos, ypos) ==
    IF c.isDragging
    THEN LET dx == xpos - c.lastMouseX
             dy == ypos - c.lastMouseY
         IN  [ c EXCEPT !.phi = WrapPhi(c.phi - dx * c.sensitivity),
                        !.theta = Clamp(c.theta + dy * c.sensitivity,
                                        c.minTheta, c.maxTheta),
                        !.lastMouseX = xpos,
                        !.lastMouseY = ypos ]
    ELSE c

\* zoom factor with the scroll direction inverted
ZoomFactor10Inverted(yoffset) == 10 + yoffset

\* zoomFactor = 1.0f - yoffset * 0.1f, in tenths
ZoomFactor10(yoffset) == 10 - yoffset

\* scroll_callback
scroll_callback(c, xoffset, yoffset) ==
    [ c EXCEPT !.radius = Clamp(MulDiv(c.radius, ZoomFactor10(yoffset), 10),
                                c.minRadius, c.maxRadius) ]

(***************************************************************************)
(* Shader loading.  The file system and the GL driver are the environment: *)
(* a shader file is "unopenable" or has a content (possibly empty), a      *)
(* compilation or a link succeeds or not.                                  *)
(***************************************************************************)
Unopenable == "unopenable"
ShaderFiles == { Unopenable, "", "glsl" }

\* loadShaderSource: the string returned and the diagnostics printed
loadShaderSource(file) ==
    IF file = Unopenable
    THEN [ src |-> "", err |-> << "Failed to open shader file" >> ]
    ELSE [ src |-> file, err |-> << >> ]

\* compileShader: shader id (0 on failure) and the diagnostics printed
compileShader(id, compiles) ==
    IF ~compiles
    THEN [ shader |-> 0, err |-> << "Shader compilation failed" >> ]
    ELSE [ shader |-> id, err |-> << >> ]

\* createShaderProgram without the test for empty sources
createShaderProgramNoEmptyTest(vFile, fFile, vCompiles, fCompiles, links) ==
    LET vertexSource   == loadShaderSource(vFile)
        fragmentSource == loadShaderSource(fFile)
        loadErr        == vertexSource.err \o fragmentSource.err
        vertexShader   == compileShader(1, vCompiles)
        fragmentShader == compileShader(2, fCompiles)
        compErr        == vertexShader.err \o fragmentShader.err
    IN  IF vertexShader.shader = 0 \/ fragmentShader.shader = 0
        THEN [ program |-> 0, err |-> loadErr \o compErr ]
        ELSE IF ~links
        THEN [ program |-> 0, err |-> << "Shader program linking failed" >> ]
        ELSE [ program |-> 3, err |-> << >> ]

\* createShaderProgram: program id (0 on failure) and the diagnostics printed
createShaderProgram(vFile, fFile, vCompiles, fCompiles, links) ==
    LET vertexSource   == loadShaderSource(vFile)
        fragmentSource == loadShaderSource(fFile)
        loadErr        == vertexSource.err \o fragmentSource.err
        vertexShader   == compileShader(1, vCompiles)
        fragmentShader == compileShader(2, fCompiles)
        compErr        == vertexShader.err \o fragmentShader.err
    IN  IF vertexSource.src = "" \/ fragmentSource.src = ""
        THEN [ program |-> 0, err |-> loadErr ]
        ELSE IF vertexShader.shader = 0 \/ fragmentShader.shader = 0
        THEN [ program |-> 0, err |-> loadErr \o compErr ]
        ELSE IF ~links
        THEN [ program |-> 0, err |-> << "Shader program linking failed" >> ]
        ELSE [ program |-> 3, err |-> << >> ]

\* The frame parameters of the shader program, in the order main() looks
\* them up
FrameParams == << "resolution", "time", "cameraPos", "cameraTarget", "cameraFov" >>
ParamNames == { FrameParams[i] : i \in 1..Len(FrameParams) }

\* The uniforms main() checks after the lookups ("Check if uniforms were found")
CheckedParams == { "cameraPos", "cameraTarget", "cameraFov" }

\* The warnings main() prints for the locations `loc`
UniformWarnings(loc) ==
    { n \in CheckedParams : loc[n] = -1 }

\* glUniform*(location, value) on the uniform store u: a location of -1 is
\* silently ignored
glUniform(u, loc, name, value) ==
    IF loc[name] = -1 THEN u ELSE [ u EXCEPT ![name] = value ]

\* The uniform values of a freshly linked program
UniformsDefault ==
    [ n \in ParamNames |-> IF n \in { "cameraPos", "cameraTarget" } THEN << 0, 0, 0 >>
                           ELSE IF n = "resolution" THEN << 0, 0 >> ELSE 0 ]

\* The five glUniform calls of one loop iteration
UpdateUniformValues(u, loc, c, time) ==
    LET camPos    == getPosition(c)
        camTarget == getTarget(c)
        u1 == glUniform(u, loc, "resolution", << SCR_WIDTH, SCR_HEIGHT >>)
        u2 == glUniform(u1, loc, "time", time)
        u3 == glUniform(u2, loc, "cameraPos", camPos)
        u4 == glUniform(u3, loc, "cameraTarget", camTarget)
    IN  glUniform(u4, loc, "cameraFov", c.fov)

\* processInput that resets on every poll that sees R pressed
processInputLevel(c, wasPressed, shouldClose, escKey, rKey) ==
    [ camera            |-> IF rKey = GLFW_PRESS THEN reset(c) ELSE c,
      didReset          |-> rKey = GLFW_PRESS,
      rKeyWasPressed    |-> rKey = GLFW_PRESS,
      windowShouldClose |-> shouldClose \/ escKey = GLFW_PRESS ]

\* processInput, as a function of the state it touches: the two keys
\* polled with glfwGetKey, the static rKeyWasPressed, the window's close
\* flag and the camera.  `didReset` tells whether camera.reset() was called.
processInput(c, wasPressed, shouldClose, escKey, rKey) ==
    [ camera            |-> IF rKey = GLFW_PRESS /\ ~wasPressed THEN reset(c) ELSE c,
      didReset          |-> rKey = GLFW_PRESS /\ ~wasPressed,
      rKeyWasPressed    |-> rKey = GLFW_PRESS,
      windowShouldClose |-> shouldClose \/ escKey = GLFW_PRESS ]

\* callbacks that may also run between the glUniform calls and the draw
CallbacksRunBeforeDraw(p) == p \in { "draw", "poll" }

\* glfwPollEvents is the only place where GLFW runs the registered callbacks
CallbacksRun(p) == p = "poll"

(***************************************************************************)
(* State.                                                                  *)
(***************************************************************************)
VARIABLES
    pc,                 \* position in main()
    camera,             \* the global Camera
    rKeyWasPressed,     \* the static of processInput
    windowShouldClose,  \* glfwWindowShouldClose(window)
    uniformLoc,         \* resolutionLoc, timeLoc, ... : -1 when not found
    uniforms,           \* the uniform values stored in the shader program
    drawn,              \* the uniform values used by the latest glDrawElements
    stderr,             \* diagnostics printed to std::cerr
    setupLog,           \* the setup steps executed, in order
    exitCode,           \* << >> while running, << code >> once main returned
    nEvents,            \* callbacks delivered so far
    nFrames,            \* loop iterations started so far
    camReads,           \* camera.getPosition() calls in the current iteration
    polledR,            \* R key as seen by the previous glfwGetKey poll
    leftHeld,           \* a left press was delivered and no left release since
    ev,                 \* the latest operation and its inputs
    ray                 \* one ray of the shading stage

vars == << pc, camera, rKeyWasPressed, windowShouldClose, uniformLoc, uniforms,
           drawn, stderr, setupLog, exitCode, nEvents, nFrames, camReads,
           polledR, leftHeld, ev, ray >>

setupVars == << uniformLoc, stderr, setupLog >>
loopVars == << camera, rKeyWasPressed, windowShouldClose, uniforms, drawn,
               nEvents, nFrames, camReads, polledR, leftHeld >>

NoEvent == [ op |-> "none" ]
NoRay == [ outcome |-> "None" ]

\* Process start: globals and statics initialized, main() not yet entered
Init ==
    /\ pc = "glfwInit"
    /\ camera = CameraDefault
    /\ rKeyWasPressed = FALSE
    /\ windowShouldClose = FALSE
    /\ uniformLoc = [ n \in ParamNames |-> -1 ]
    /\ uniforms = UniformsDefault
    /\ drawn = << >>
    /\ stderr = { }
    /\ setupLog = << >>
    /\ exitCode = << >>
    /\ nEvents = 0
    /\ nFrames = 0
    /\ camReads = 0
    /\ polledR = GLFW_RELEASE
    /\ leftHeld = FALSE
    /\ ev = NoEvent
    /\ ray = NoRay

(***************************************************************************)
(* Setup: main() up to the render loop.                                    *)
(***************************************************************************)
\* return -1 from main after printing `msgs`
Fail(step, msgs, e) ==
    /\ pc' = "exited"
    /\ ev' = e
    /\ exitCode' = << -1 >>
    /\ stderr' = stderr \cup msgs
    /\ setupLog' = Append(setupLog, step)
    /\ UNCHANGED << uniformLoc >>

Proceed(step, next, e) ==
    /\ pc' = next
    /\ ev' = e
    /\ setupLog' = Append(setupLog, step)
    /\ UNCHANGED << exitCode, stderr, uniformLoc >>

\* if (!glfwInit()) ...
GlfwInit ==
    /\ pc = "glfwInit"
    /\ \E ok \in BOOLEAN :
         LET e == [ op |-> "setup", step |-> "glfwInit", ok |-> ok ]
         IN  IF ok THEN Proceed("glfwInit", "createWindow", e)
                   ELSE Fail("glfwInit", { << "Failed to initialize GLFW" >> }, e)
    /\ UNCHANGED << loopVars, ray >>

\* glfwCreateWindow, glfwMakeContextCurrent, callback registration
CreateWindow ==
    /\ pc = "createWindow"
    /\ \E ok \in BOOLEAN :
         LET e == [ op |-> "setup", step |-> "createWindow", ok |-> ok ]
         IN  IF ok THEN Proceed("createWindow", "gladLoad", e)
                   ELSE Fail("createWindow", { << "Failed to create GLFW window" >> }, e)
    /\ UNCHANGED << loopVars, ray >>

\* gladLoadGLLoader
LoadGL ==
    /\ pc = "gladLoad"
    /\ \E ok \in BOOLEAN :
         LET e == [ op |-> "setup", step |-> "gladLoad", ok |-> ok ]
         IN  IF ok THEN Proceed("gladLoad", "shaders", e)
                   ELSE Fail("gladLoad", { << "Failed to initialize GLAD" >> }, e)
    /\ UNCHANGED << loopVars, ray >>

\* createShaderProgram(...) and the test of its result
BuildShaderProgram ==
    /\ pc = "shaders"
    /\ \E vFile \in ShaderFiles, fFile \in ShaderFiles,
          vCompiles \in BOOLEAN, fCompiles \in BOOLEAN, links \in BOOLEAN :
         LET r == createShaderProgram(vFile, fFile, vCompiles, fCompiles, links)
             msgs == { << r.err[i] >> : i \in 1..Len(r.err) }
             e == [ op |-> "setup", step |-> "shaders", vFile |-> vFile,
                    fFile |-> fFile, vCompiles |-> vCompiles,
                    fCompiles |-> fCompiles, links |-> links ]
         IN  IF r.program = 0
             THEN Fail("shaders", msgs, e)
             ELSE Proceed("shaders", "uniformLocs", e)
    /\ UNCHANGED << loopVars, ray >>

\* Quad setup, the five glGetUniformLocation calls, the warnings and the
\* banner; `found` is the set of uniforms the linked program has
GetUniformLocations ==
    /\ pc = "uniformLocs"
    /\ \E found \in SUBSET ParamNames :
         LET loc == [ n \in ParamNames |->
                        IF n \in found
                        THEN CHOOSE i \in 1..Len(FrameParams) : FrameParams[i] = n
                        ELSE -1 ]
         IN  /\ uniformLoc' = loc
             /\ stderr' = stderr \cup
                    { << "Warning: uniform not found", n >> : n \in UniformWarnings(loc) }
    /\ pc' = "loop"
    /\ setupLog' = Append(setupLog, "uniformLocs")
    /\ ev' = [ op |-> "setup", step |-> "uniformLocs", ok |-> TRUE ]
    /\ UNCHANGED << exitCode, loopVars, ray >>

(***************************************************************************)
(* The render loop.                                                        *)
(***************************************************************************)
\* while (!glfwWindowShouldClose(window)): the loop is entered
LoopEnter ==
    /\ pc = "loop"
    /\ ~windowShouldClose
    /\ nFrames < MaxFrames
    /\ pc' = "input"
    /\ nFrames' = nFrames + 1
    /\ camReads' = 0
    /\ ev' = [ op |-> "frame" ]
    /\ UNCHANGED << camera, rKeyWasPressed, windowShouldClose, uniforms, drawn,
                    nEvents, polledR, leftHeld, setupVars, exitCode, ray >>

\* the loop is left: cleanup, glfwTerminate, return 0
LoopExit ==
    /\ pc = "loop"
    /\ windowShouldClose
    /\ pc' = "done"
    /\ exitCode' = << 0 >>
    /\ ev' = [ op |-> "exit" ]
    /\ UNCHANGED << loopVars, setupVars, ray >>

\* processInput(window)
ProcessInput ==
    /\ pc = "input"
    /\ \E escKey \in ButtonActions, rKey \in ButtonActions :
         LET r == processInput(camera, rKeyWasPressed, windowShouldClose, escKey, rKey)
         IN  /\ camera' = r.camera
             /\ rKeyWasPressed' = r.rKeyWasPressed
             /\ windowShouldClose' = r.windowShouldClose
             /\ polledR' = rKey
             /\ ev' = [ op |-> "processInput", escKey |-> escKey, rKey |-> rKey,
                        didReset |-> r.didReset ]
    /\ pc' = "uniforms"
    /\ UNCHANGED << uniforms, drawn, nEvents, nFrames, camReads, leftHeld,
                    setupVars, exitCode, ray >>

\* glClear, glUseProgram, the reads of the camera and the glUniform calls
UpdateUniforms ==
    /\ pc = "uniforms"
    /\ uniforms' = UpdateUniformValues(uniforms, uniformLoc, camera, nFrames)
    /\ camReads' = camReads + 1
    /\ pc' = "draw"
    /\ ev' = [ op |-> "frame" ]
    /\ UNCHANGED << camera, rKeyWasPressed, windowShouldClose, drawn, nEvents,
                    nFrames, polledR, leftHeld, setupVars, exitCode, ray >>

\* glBindVertexArray, glDrawElements
Draw ==
    /\ pc = "draw"
    /\ drawn' = uniforms
    /\ pc' = "swap"
    /\ ev' = [ op |-> "frame" ]
    /\ UNCHANGED << camera, rKeyWasPressed, windowShouldClose, uniforms, nEvents,
                    nFrames, camReads, polledR, leftHeld, setupVars, exitCode, ray >>

\* glfwSwapBuffers, and glfwPollEvents starts
SwapBuffers ==
    /\ pc = "swap"
    /\ pc' = "poll"
    /\ ev' = [ op |-> "frame" ]
    /\ UNCHANGED << loopVars, setupVars, exitCode, ray >>

\* glfwPollEvents returns
EndPoll ==
    /\ pc = "poll"
    /\ pc' = "loop"
    /\ ev' = [ op |-> "frame" ]
    /\ UNCHANGED << loopVars, setupVars, exitCode, ray >>

\* A callback changes the camera and nothing else of the program; `held`
\* is the state of the left button after the event
Deliver(c, e, held) ==
    /\ CallbacksRun(pc)
    /\ nEvents < MaxEvents
    /\ nEvents' = nEvents + 1
    /\ camera' = c
    /\ ev' = e
    /\ leftHeld' = held
    /\ UNCHANGED << pc, rKeyWasPressed, windowShouldClose, uniforms, drawn,
                    nFrames, camReads, polledR, setupVars, exitCode, ray >>

\* a mouse button event is delivered
MouseButton ==
    \E button \in Buttons, action \in ButtonActions, p \in CursorPositions :
        Deliver(mouse_button_callback(camera, button, action, p[1], p[2]),
                [ op |-> "button", button |-> button, action |-> action ],
                IF button = GLFW_MOUSE_BUTTON_LEFT THEN action = GLFW_PRESS
                                                   ELSE leftHeld)

\* a cursor position event is delivered
CursorPos ==
    \E p \in CursorPositions :
        Deliver(cursor_position_callback(camera, p[1], p[2]),
                [ op |-> "cursor", xpos |-> p[1], ypos |-> p[2] ], leftHeld)

\* a scroll event is delivered
Scroll ==
    \E yoffset \in ScrollOffsets :
        Deliver(scroll_callback(camera, 0, yoffset),
                [ op |-> "scroll", yoffset |-> yoffset ], leftHeld)

(***************************************************************************)
(* Specifications.                                                         *)
(***************************************************************************)
LoopStep ==
    \/ LoopEnter
    \/ LoopExit
    \/ ProcessInput
    \/ UpdateUniforms
    \/ Draw
    \/ SwapBuffers
    \/ EndPoll

\* The state in which main() first tests the loop condition after a setup
\* in which every step succeeded and every uniform was found
InitLoop ==
    /\ pc = "loop"
    /\ camera = CameraDefault
    /\ rKeyWasPressed = FALSE
    /\ windowShouldClose = FALSE
    /\ uniformLoc = [ n \in ParamNames |->
                        CHOOSE i \in 1..Len(FrameParams) : FrameParams[i] = n ]
    /\ uniforms = UniformsDefault
    /\ drawn = << >>
    /\ stderr = { }
    /\ setupLog = << "glfwInit", "createWindow", "gladLoad", "shaders", "uniformLocs" >>
    /\ exitCode = << >>
    /\ nEvents = 0
    /\ nFrames = 0
    /\ camReads = 0
    /\ polledR = GLFW_RELEASE
    /\ leftHeld = FALSE
    /\ ev = NoEvent
    /\ ray = NoRay

\* The render loop with the user's pointer, scroll and key input
Next ==
    \/ LoopStep
    \/ MouseButton
    \/ CursorPos
    \/ Scroll

Spec == InitLoop /\ [][Next]_vars

\* The whole of main(), from process start, with key input only
NextSetup ==
    \/ GlfwInit
    \/ CreateWindow
    \/ LoadGL
    \/ BuildShaderProgram
    \/ GetUniformLocations
    \/ LoopStep

SpecSetup == Init /\ [][NextSetup]_vars

(***************************************************************************)
(* The shading stage (shaders/fragment.glsl, loaded by createShaderProgram *)
(* and run by glDrawElements for every pixel).  One ray: its distance r    *)
(* from the origin, the number of integration steps taken, and its         *)
(* outcome.  The metric is not fixed by the design, so a step moves the    *)
(* ray by any amount within the step size.                                 *)
(***************************************************************************)
HorizonRadius == 2
DiskInnerRadius == 4
DiskOuterRadius == 7
BackgroundRadius == 10
MaxSteps == 6

TerminalOutcomes == { "Captured", "HitDisk", "Escaped" }

\* Adaptive step size: finer close to the horizon
StepSize(r) == IF r <= 2 * HorizonRadius THEN 1 ELSE 2

\* The termination checks of one step, first match wins; a non-finite
\* state is classified Captured
Classify(r, crossesDiskPlane, finite) ==
    IF ~finite THEN "Captured"
    ELSE IF r <= HorizonRadius THEN "Captured"
    ELSE IF crossesDiskPlane /\ r >= DiskInnerRadius /\ r <= DiskOuterRadius THEN "HitDisk"
    ELSE IF r > BackgroundRadius THEN "Escaped"
    ELSE "Traveling"

\* integration that goes on past the maximum step count
MayStepUnbounded(rr) == rr.outcome = "Traveling"

\* The integration loop takes a step while the ray travels and the step
\* count is below the maximum
MayStep(rr) == rr.outcome = "Traveling" /\ rr.steps < MaxSteps

\* A ray leaves the camera, which orbits outside the horizon
InitRay ==
    /\ pc = "shading"
    /\ camera = CameraDefault
    /\ rKeyWasPressed = FALSE
    /\ windowShouldClose = FALSE
    /\ uniformLoc = [ n \in ParamNames |->
                        CHOOSE i \in 1..Len(FrameParams) : FrameParams[i] = n ]
    /\ uniforms = UniformsDefault
    /\ drawn = << >>
    /\ stderr = { }
    /\ setupLog = << "glfwInit", "createWindow", "gladLoad", "shaders", "uniformLocs" >>
    /\ exitCode = << >>
    /\ nEvents = 0
    /\ nFrames = 0
    /\ camReads = 0
    /\ polledR = GLFW_RELEASE
    /\ leftHeld = FALSE
    /\ ev = NoEvent
    /\ \E r0 \in (HorizonRadius + 1)..BackgroundRadius :
         ray = [ outcome |-> "Traveling", r |-> r0, steps |-> 0 ]

\* one integration step followed by the termination checks
RayStep ==
    /\ MayStep(ray)
    /\ \E dr \in -StepSize(ray.r)..StepSize(ray.r),
          crossesDiskPlane \in BOOLEAN, finite \in BOOLEAN :
         ray' = [ outcome |-> Classify(ray.r + dr, crossesDiskPlane, finite),
                  r       |-> ray.r + dr,
                  steps   |-> ray.steps + 1 ]
    /\ UNCHANGED << pc, loopVars, setupVars, exitCode, ev >>

\* the step count reached the maximum: forced Escaped
RayExhausted ==
    /\ ray.outcome = "Traveling"
    /\ ray.steps >= MaxSteps
    /\ ray' = [ ray EXCEPT !.outcome = "Escaped" ]
    /\ UNCHANGED << pc, loopVars, setupVars, exitCode, ev >>

NextRay ==
    \/ RayStep
    \/ RayExhausted

\* The shader invocation runs its loop to the end
SpecRay == InitRay /\ [][NextRay]_vars /\ WF_vars(NextRay)

(***************************************************************************)
(* Properties.                                                             *)
(***************************************************************************)
LoopPcs == { "loop", "input", "uniforms", "draw", "swap", "poll", "done" }

\* The Camera fields other than the three named
OtherFields(names) == DOMAIN CameraDefault \ names

SameFields(c1, c2, names) == \A f \in names : c1[f] = c2[f]

\* x brought into [lo, hi]
Bounded(x, lo, hi) == IF x < lo THEN lo ELSE IF x > hi THEN hi ELSE x

\* C1: after any sequence of pointer-down, pointer-move, pointer-up, scroll
\* and reset events, radius is within [minRadius, maxRadius] and theta is
\* within [minTheta, maxTheta].
C1_ClampInvariant ==
    /\ camera.minRadius <= camera.radius
    /\ camera.radius <= camera.maxRadius
    /\ camera.minTheta <= camera.theta
    /\ camera.theta <= camera.maxTheta

\* A scroll whose zoom factor is zero or negative has acted on a camera
\* whose theta an earlier drag pushed to its upper bound
C1_Witness ==
    /\ ev.op = "scroll"
    /\ ev.yoffset >= 10
    /\ camera.radius = camera.minRadius
    /\ camera.theta = camera.maxTheta

\* C2: after any sequence of drags phi is within (-pi, pi], also when one
\* move's dx * sensitivity exceeds 2 * pi.
C2_PhiNormalized ==
    /\ camera.phi > -Pi
    /\ camera.phi <= Pi

\* C3: reset() runs in a poll exactly when that poll sees R pressed and the
\* previous poll saw it released (the first poll counting as preceded by
\* released); in every other poll the camera is left alone.
C3_ResetEdgeTriggered ==
    [][ (pc = "input" /\ pc' = "uniforms") =>
          /\ ev'.didReset <=> (ev'.rKey = GLFW_PRESS /\ polledR = GLFW_RELEASE)
          /\ ev'.didReset => camera'.radius = 25 * RadiusScale /\ camera'.phi = 0
          /\ ~ev'.didReset => camera' = camera ]_vars

\* R is held over two consecutive polls, with a zoom in between: the second
\* poll does not reset
C3_Witness ==
    /\ ev.op = "processInput"
    /\ ev.rKey = GLFW_PRESS
    /\ ~ev.didReset
    /\ nFrames >= 2
    /\ camera.radius # 25 * RadiusScale

\* C4: reset() sets radius, theta and phi to fixed values whatever the
\* camera was, leaves every other field as it was, and position() and
\* target() read right after it give the canonical position and the origin.
C4_ResetFrame ==
    [][ (pc = "input" /\ pc' = "uniforms" /\ ev'.didReset) =>
          /\ camera'.radius = 25 * RadiusScale
          /\ camera'.theta = HalfPi
          /\ camera'.phi = 0
          /\ SameFields(camera', camera, OtherFields({ "radius", "theta", "phi" }))
          /\ getPosition(camera') = << 25 * RadiusScale, 0, 0 >>
          /\ getTarget(camera') = << 0, 0, 0 >> ]_vars

\* reset() has acted in the middle of a drag, on a zoomed and rotated camera
C4_Witness ==
    /\ ev.op = "processInput"
    /\ ev.didReset
    /\ camera.isDragging
    /\ camera.lastMouseX # 0
    /\ camera.radius = 25 * RadiusScale
    /\ nEvents >= 3

\* C5: a pointer-move between a left pointer-down and the next left
\* pointer-up turns phi into phi - dx * sensitivity (up to whole turns) and
\* theta into theta + dy * sensitivity brought into [minTheta, maxTheta],
\* with (dx, dy) taken from the last recorded pointer position, and leaves
\* radius and fov alone; outside a drag it changes no field of the camera.
C5_MoveOnlyWhileDragging ==
    [][ (nEvents' = nEvents + 1 /\ ev'.op = "cursor") =>
          IF leftHeld
          THEN LET dx == ev'.xpos - camera.lastMouseX
                   dy == ev'.ypos - camera.lastMouseY
               IN  /\ (camera'.phi - (camera.phi - dx * camera.sensitivity)) % TwoPi = 0
                   /\ camera'.theta = Bounded(camera.theta + dy * camera.sensitivity,
                                              camera.minTheta, camera.maxTheta)
                   /\ camera'.lastMouseX = ev'.xpos
                   /\ camera'.lastMouseY = ev'.ypos
                   /\ SameFields(camera', camera,
                        OtherFields({ "phi", "theta", "lastMouseX", "lastMouseY" }))
          ELSE camera' = camera ]_vars

\* A move of (100, 300) pixels has acted during a drag
C5_Witness ==
    /\ ev.op = "cursor"
    /\ leftHeld
    /\ camera.phi = 3000 - 100 * 50
    /\ camera.theta = MulDiv(HalfPi, 8, 10) + 300 * 50
    /\ camera.lastMouseX = 100

\* C6: a scroll sets radius to radius * (1 - yoffset * 0.1) brought into
\* [minRadius, maxRadius], in or out of a drag, and leaves every other
\* field alone; a scroll of 5 halves the radius, or sets it to minRadius
\* when the half is below minRadius.
C6_Zoom ==
    [][ (nEvents' = nEvents + 1 /\ ev'.op = "scroll") =>
          /\ camera'.radius = Bounded(MulDiv(camera.radius, 10 - ev'.yoffset, 10),
                                      camera.minRadius, camera.maxRadius)
          /\ SameFields(camera', camera, OtherFields({ "radius" }))
          /\ leftHeld' = leftHeld
          /\ ev'.yoffset = 5 =>
               camera'.radius = IF 2 * camera.minRadius > camera.radius
                                THEN camera.minRadius
                                ELSE MulDiv(camera.radius, 1, 2) ]_vars

\* A scroll of 5 has halved the radius during a drag
C6_Witness ==
    /\ ev.op = "scroll"
    /\ ev.yoffset = 5
    /\ camera.isDragging
    /\ camera.radius = 25 * RadiusScale

\* The setup step recorded in e met a failure
SetupStepFailed(e) ==
    /\ e.op = "setup"
    /\ IF e.step = "shaders"
       THEN \/ e.vFile \in { Unopenable, "" }
            \/ e.fFile \in { Unopenable, "" }
            \/ ~e.vCompiles
            \/ ~e.fCompiles
            \/ ~e.links
       ELSE ~e.ok

NoDuplicates(seq) == \A i, j \in 1..Len(seq) : seq[i] = seq[j] => i = j

\* C7: every setup failure ends the process with a non-zero exit code, no
\* setup step is run twice, and no frame is drawn after a failure.
C7_SetupFailureFatal ==
    /\ NoDuplicates(setupLog)
    /\ SetupStepFailed(ev) =>
         /\ pc = "exited"
         /\ Len(exitCode) = 1
         /\ exitCode[1] # 0
         /\ nFrames = 0
         /\ drawn = << >>
         /\ ~ENABLED NextSetup

\* main() has returned after finding an openable but empty vertex shader
C7_Witness ==
    /\ ev.op = "setup"
    /\ ev.step = "shaders"
    /\ ev.vFile = ""
    /\ ev.fFile = "glsl"
    /\ ev.vCompiles /\ ev.fCompiles /\ ev.links
    /\ pc = "exited"

\* C8: for each of the five frame parameters, when its location is not
\* found a warning for it is printed, and the program goes on into the
\* render loop.
C8_MissingUniformWarned ==
    "uniformLocs" \in { setupLog[i] : i \in 1..Len(setupLog) } =>
        /\ pc \in LoopPcs
        /\ \A n \in ParamNames :
             uniformLoc[n] = -1 => << "Warning: uniform not found", n >> \in stderr

\* C9: each iteration reads the camera once, after the key input of the
\* iteration and the events polled before it, and before the draw; the
\* camera does not change between the read and the draw, so the frame is
\* drawn with cameraPos = position() of the camera and cameraTarget = origin.
C9_ReadOncePerFrame ==
    /\ [](pc = "swap" =>
            /\ camReads = 1
            /\ drawn.cameraPos = getPosition(camera)
            /\ drawn.cameraTarget = << 0, 0, 0 >>
            /\ drawn.cameraFov = camera.fov)
    /\ [][camera' # camera => pc \in { "input", "poll" }]_vars

\* A frame has been drawn after pointer events and a reset changed the camera
C9_Witness ==
    /\ pc = "swap"
    /\ nFrames >= 2
    /\ nEvents >= 2
    /\ camera.radius = 25 * RadiusScale
    /\ camera.phi # 0
    /\ drawn.cameraPos = getPosition(camera)
    /\ drawn.cameraPos # getPosition(reset(CameraDefault))

\* C10: a ray starts Traveling, reaches one terminal outcome within the
\* maximum step count, takes no step once terminal, and is Escaped when it
\* ran out of steps.
C10_RayTerminates ==
    /\ <>(ray.outcome \in TerminalOutcomes)
    /\ [](ray.steps <= MaxSteps)
    /\ [](ray.steps = 0 => ray.outcome = "Traveling")
    /\ [][ray.outcome \in TerminalOutcomes => ray' = ray]_vars
    /\ [][(ray.outcome = "Traveling" /\ ray.steps = MaxSteps) =>
            ray'.outcome = "Escaped"]_vars

\* A ray has used every step without meeting a termination check
C10_Witness ==
    /\ ray.outcome = "Escaped"
    /\ ray.steps = MaxSteps
    /\ ray.r <= BackgroundRadius

====
